---- MODULE Spec2Model ----
(***************************************************************************)
(* Model of the BOM workflow orchestration engine                          *)
(* (backend/services/workflow_service.py, backend/models.py and the two    *)
(* Gemini-backed services it calls).                                       *)
(*                                                                         *)
(* Strings are sequences of one-character tokens, so that strip() and      *)
(* lower() are computed, not assumed.  A JSON value that is null is Null,  *)
(* a key that is missing from a dict is Absent.                            *)
(***************************************************************************)
EXTENDS Integers, Sequences, FiniteSets, TLC

\* ------------------------------------------------------------------ bounds
\* Number of submissions (each gets a fresh uuid4, main.py:141).
MaxWorkflows == 2
\* Longest item list a classification response holds.
MaxItems == 2

\* ------------------------------------------------------- program constants
\* ThreadPoolExecutor(max_workers=4)
MAX_WORKERS == 4
\* _call_api_with_retry(..., max_retries: int = 5)
MAX_RETRIES == 5

\* --------------------------------------------------------- python values
Null == <<"?null">>
Absent == <<"?absent">>
ScoreNull == -2
ScoreAbsent == -1

IsStr(v) == v # Null /\ v # Absent

\* dict.get(key): None for a missing key and for a null value.
Get(v) == IF v = Absent THEN Null ELSE v
\* dict.get(key, default)
GetOr(v, d) == IF v = Absent THEN d ELSE v
\* Python truthiness of a str-or-None value.
Truthy(v) == v # Null /\ v # Absent /\ v # <<>>

IsSpace(c) == c = " "

LowerChar(c) ==
  CASE c = "A" -> "a"
    [] c = "B" -> "b"
    [] c = "P" -> "p"
    [] OTHER -> c

\* str.lower()
Lower(s) == [i \in 1..Len(s) |-> LowerChar(s[i])]

RECURSIVE LStrip(_)
LStrip(s) == IF s # <<>> /\ IsSpace(Head(s)) THEN LStrip(Tail(s)) ELSE s

RECURSIVE RStrip(_)
RStrip(s) ==
  IF s # <<>> /\ IsSpace(s[Len(s)]) THEN RStrip(SubSeq(s, 1, Len(s) - 1)) ELSE s

\* str.strip()
Strip(s) == RStrip(LStrip(s))

\* a in b, for two strings
IsSubstr(a, b) ==
  \E i \in 0..(Len(b) - Len(a)) : SubSeq(b, i + 1, i + Len(a)) = a

\* ---------------------------------------------------------------- items
AutoRegister == <<"AR">>
AutoFlag == <<"AF">>
HumanReview == <<"HI">>

\* One element of the JSON array the classification call returns.  kind is
\* "dict" for a JSON object and "other" for any other JSON value.
Item(k, mn, pn, rs, cs, ap, ql) ==
  [kind |-> k, material_name |-> mn, part_number |-> pn, reasoning |-> rs,
   confidence_score |-> cs, action_path |-> ap, qa_classification_label |-> ql]

IsDict(item) == item.kind = "dict"

\* action_path_priority.get(path)
action_path_priority(path) ==
  CASE path = HumanReview -> 3
    [] path = AutoFlag -> 2
    [] path = AutoRegister -> 1
    [] OTHER -> 0

\* The key without lower().
DedupKey_cased(item) ==
  LET mn == Get(item.material_name)
      pn == Get(item.part_number)
      mns == IF mn # Null THEN Strip(mn) ELSE <<>>
      pns == IF pn # Null THEN Strip(pn) ELSE <<>>
  IN mns \o <<"|", "|">> \o pns

\* key = f"{material_name_str.lower()}||{part_number_str.lower()}"
DedupKey(item) ==
  LET mn == Get(item.material_name)
      pn == Get(item.part_number)
      mns == IF mn # Null THEN Strip(mn) ELSE <<>>
      pns == IF pn # Null THEN Strip(pn) ELSE <<>>
  IN Lower(mns) \o <<"|", "|">> \o Lower(pns)

\* The merge of a duplicate into the record kept for its key raises
\* TypeError when a reasoning or a score that is compared is None.
MergeRaises(existing, item) ==
  \/ /\ Truthy(GetOr(item.reasoning, <<>>))
     /\ GetOr(existing.reasoning, <<>>) = Null
  \/ existing.confidence_score = ScoreNull
  \/ item.confidence_score = ScoreNull

Max(a, b) == IF a >= b THEN a ELSE b

MergeReasoning(existing, item) ==
  LET new == GetOr(item.reasoning, <<>>)
      old == GetOr(existing.reasoning, <<>>)
  IN IF Truthy(new) /\ ~IsSubstr(new, old)
     THEN old \o <<" ", "|", " ">> \o new
     ELSE existing.reasoning

\* The merge that keeps the score seen last.
MergeScore_last(existing, item) ==
  IF item.confidence_score = ScoreAbsent THEN 0 ELSE item.confidence_score

MergeScore(existing, item) ==
  Max(IF existing.confidence_score = ScoreAbsent THEN 0
      ELSE existing.confidence_score,
      IF item.confidence_score = ScoreAbsent THEN 0 ELSE item.confidence_score)

\* The merge that takes the action path seen last.
MergeActionPath_last(existing, item) == Get(item.action_path)

\* The merge that never touches the action path seen first.
MergeActionPath_first(existing, item) == existing.action_path

MergeActionPath(existing, item) ==
  LET cur == action_path_priority(Get(existing.action_path))
      new == action_path_priority(Get(item.action_path))
  IN IF new # 0 /\ (cur = 0 \/ new > cur)
     THEN Get(item.action_path)
     ELSE existing.action_path

\* existing_item['qa_classification_label'] =
\*     existing_item.get('qa_classification_label')
MergeLabel(existing, item) ==
  IF Truthy(item.qa_classification_label)
     /\ Get(item.qa_classification_label) # Get(existing.qa_classification_label)
  THEN Get(existing.qa_classification_label)
  ELSE existing.qa_classification_label

MergeItem(existing, item) ==
  [existing EXCEPT !.reasoning = MergeReasoning(existing, item),
                   !.confidence_score = MergeScore(existing, item),
                   !.action_path = MergeActionPath(existing, item),
                   !.qa_classification_label = MergeLabel(existing, item)]

KeyIndex(acc, key) ==
  IF \E i \in 1..Len(acc) : DedupKey(acc[i]) = key
  THEN CHOOSE i \in 1..Len(acc) : DedupKey(acc[i]) = key
  ELSE 0

\* The loop of _deduplicate_items over items[n..], with unique_items = acc
\* (a dict keeps insertion order).  Returns the merged list, or raised.
RECURSIVE DedupLoop(_, _, _)
DedupLoop(items, n, acc) ==
  IF n > Len(items) THEN [raised |-> FALSE, items |-> acc]
  ELSE LET item == items[n]
       IN IF ~IsDict(item) THEN [raised |-> TRUE, items |-> <<>>]
          ELSE LET i == KeyIndex(acc, DedupKey(item))
               IN IF i = 0 THEN DedupLoop(items, n + 1, Append(acc, item))
                  ELSE IF MergeRaises(acc[i], item)
                       THEN [raised |-> TRUE, items |-> <<>>]
                       ELSE DedupLoop(items, n + 1,
                              [acc EXCEPT ![i] = MergeItem(acc[i], item)])

\* The deduplication that returns its records last key first.
_deduplicate_items_reversed(items) ==
  IF items = <<>> THEN [raised |-> FALSE, items |-> <<>>]
  ELSE LET d == DedupLoop(items, 1, <<>>)
       IN [raised |-> d.raised,
           items |-> [i \in 1..Len(d.items) |->
                        d.items[Len(d.items) + 1 - i]]]

_deduplicate_items(items) ==
  IF items = <<>> THEN [raised |-> FALSE, items |-> <<>>]
  ELSE DedupLoop(items, 1, <<>>)


\* ------------------------------------------------------ resilient caller
\* What one requests.post attempt can end in: a 2xx response, HTTP 429,
\* another HTTP error status, or a transport failure (RequestException).
Responses == {"ok", "429", "http_error", "transport_error"}

\* The attempts one call consumes: rate-limit answers, then either another
\* answer or the last attempt allowed.
Scripts ==
  {s \in UNION {[1..n -> Responses] : n \in 1..MAX_RETRIES} :
     /\ \A i \in 1..(Len(s) - 1) : s[i] = "429"
     /\ (s[Len(s)] = "429" => Len(s) = MAX_RETRIES)}

\* The loop that waits one second more each time.
RECURSIVE RetryLoop_linear(_, _, _)
RetryLoop_linear(script, i, waits) ==
  IF i >= MAX_RETRIES THEN [outcome |-> "none", attempts |-> i, waits |-> waits]
  ELSE LET r == script[i + 1]
       IN CASE r = "ok" ->
                 [outcome |-> "response", attempts |-> i + 1, waits |-> waits]
            [] r = "transport_error" ->
                 [outcome |-> "raised", attempts |-> i + 1, waits |-> waits]
            [] OTHER ->
                 IF r = "429" /\ i < MAX_RETRIES - 1
                 THEN RetryLoop_linear(script, i + 1, Append(waits, i + 1))
                 ELSE [outcome |-> "raised", attempts |-> i + 1, waits |-> waits]

\* The loop that gives up one attempt early.
RECURSIVE RetryLoop_short(_, _, _)
RetryLoop_short(script, i, waits) ==
  IF i >= MAX_RETRIES THEN [outcome |-> "none", attempts |-> i, waits |-> waits]
  ELSE LET r == script[i + 1]
       IN CASE r = "ok" ->
                 [outcome |-> "response", attempts |-> i + 1, waits |-> waits]
            [] r = "transport_error" ->
                 [outcome |-> "raised", attempts |-> i + 1, waits |-> waits]
            [] OTHER ->
                 IF r = "429" /\ i < MAX_RETRIES - 2
                 THEN RetryLoop_short(script, i + 1, Append(waits, 2 ^ i))
                 ELSE [outcome |-> "raised", attempts |-> i + 1, waits |-> waits]

RECURSIVE RetryLoop(_, _, _)
RetryLoop(script, i, waits) ==
  IF i >= MAX_RETRIES THEN [outcome |-> "none", attempts |-> i, waits |-> waits]
  ELSE LET r == script[i + 1]
       IN CASE r = "ok" ->
                 [outcome |-> "response", attempts |-> i + 1, waits |-> waits]
            [] r = "transport_error" ->
                 [outcome |-> "raised", attempts |-> i + 1, waits |-> waits]
            [] OTHER ->
                 IF r = "429" /\ i < MAX_RETRIES - 1
                 THEN RetryLoop(script, i + 1, Append(waits, 2 ^ i))
                 ELSE [outcome |-> "raised", attempts |-> i + 1, waits |-> waits]

\* GeminiAgentService._call_api_with_retry / TranslationService's copy
_call_api_with_retry(script) == RetryLoop(script, 0, <<>>)

\* TranslationService.translate_to_english: the translation, or the text it
\* was given when the call or the reading of its body raises.
translate_to_english(text, script, wellformed) ==
  IF _call_api_with_retry(script).outcome = "response" /\ wellformed
  THEN "english"
  ELSE text

\* The call that hands on whatever JSON value the body holds: a JSON object
\* where a list is expected.
extract_and_classify_items_unchecked(script, body) ==
  IF _call_api_with_retry(script).outcome # "response" THEN <<>>
  ELSE IF body.kind = "list" THEN body.items
  ELSE IF body.kind = "not_list"
       THEN <<Item("other", Absent, Absent, Absent, ScoreAbsent, Absent,
                   Absent)>>
       ELSE <<>>

\* The body of a 2xx answer of the classification call.
BodyKinds == {"list", "no_choices", "malformed", "not_list"}

\* GeminiAgentService.extract_and_classify_items
extract_and_classify_items(script, body) ==
  IF _call_api_with_retry(script).outcome # "response" THEN <<>>
  ELSE IF body.kind = "list" THEN body.items ELSE <<>>


\* ------------------------------------------------------------- the state
VARIABLES
  probe,             \* one call of a function on its own: input and result
  scenario,          \* what the environment does in this behaviour
  issued,            \* number of workflow ids upload_documents has drawn
  workflows,         \* table workflows: id -> row
  uploads,           \* ids that have a directory under uploads/
  results_files,     \* results/<id>.json: id -> file
  workflow_results,  \* table workflow_results, in insertion order
  pending_approvals, \* table pending_approvals, in insertion order
  knowledge_base,    \* table knowledge_base, in insertion order
  autoinc,           \* the AUTOINCREMENT counters of the three tables
  queue,             \* the executor's work queue (submitted, not started)
  run,               \* id -> frame of its _process_workflow_async call
  del                \* frame of the delete_workflow call being served

vars == <<probe, scenario, issued, workflows, uploads, results_files, workflow_results,
          pending_approvals, knowledge_base, autoinc, queue, run, del>>

\* Room for one submission more than the executor has threads.
Ids == 1..Max(MaxWorkflows, MAX_WORKERS + 1)

\* The environment is one of three:
\*   "single"      one submission; the inference service may answer with
\*                 any list over SampleItems, the operator may delete the
\*                 workflow at any time;
\*   "concurrent"  up to MaxWorkflows submissions run side by side on the
\*                 executor; the inference service answers with the lists
\*                 of ConcurrentLists and nothing is deleted;
\*   "pool"        one submission more than the executor has threads, each
\*                 of a document of an unsupported type, so that every run
\*                 is short; nothing is deleted.
\* Database and file operations fail in all of them.
Scenarios == {"single", "concurrent", "pool", "review"}

SubmissionLimit ==
  CASE scenario = "single" -> 1
    [] scenario = "concurrent" -> MaxWorkflows
    [] scenario = "review" -> 1
    [] OTHER -> MAX_WORKERS + 1

\* Uploaded work-instruction documents: a supported file that can be read,
\* a supported file whose parsing fails, a file of an unsupported type.
Docs == {"readable", "unreadable", "unsupported"}

\* (comparison_mode, item master uploaded) pairs upload_documents accepts.
Submissions ==
  {[mode |-> "full", item_master |-> TRUE]}

\* Items the inference service may return.
SampleItems ==
  {Item("dict", <<"A">>, <<"p">>, <<"x">>, 90, AutoRegister, <<"1">>),
   Item("dict", <<" ", "a">>, <<"P">>, <<"y">>, 30, HumanReview, <<"6">>),
   Item("dict", <<"b">>, Null, Absent, ScoreAbsent, AutoRegister, Absent),
   Item("dict", Null, <<"b">>, <<"x">>, 90, AutoRegister, <<"1">>),
   Item("other", Absent, Absent, Absent, ScoreAbsent, Absent, Absent)}

ItemLists == UNION {[1..n -> SampleItems] : n \in 0..MaxItems}

\* One auto-register item, or one item for human review, or one item the
\* extraction returned without action_path and qa_classification_label.
ConcurrentLists ==
  {<<Item("dict", <<"A">>, <<"p">>, <<"x">>, 90, AutoRegister, <<"1">>)>>,
   <<Item("dict", <<" ", "a">>, <<"P">>, <<"y">>, 30, HumanReview, <<"6">>)>>,
   <<Item("dict", <<"b">>, <<"p">>, <<"x">>, 30, Absent, Absent)>>}

\* Two items for human review, the second one without a material_name.
ReviewLists ==
  {<<Item("dict", <<"b">>, <<"p">>, <<"x">>, 30, HumanReview, <<"6">>),
     Item("dict", Null, <<"b">>, <<"x">>, 30, HumanReview, <<"6">>)>>}

ScenarioDocs ==
  CASE scenario = "single" -> Docs
    [] scenario = "concurrent" -> {"readable"}
    [] scenario = "review" -> {"readable"}
    [] OTHER -> {"unsupported"}

\* In the concurrent scenario the inference service answers every call at
\* the first attempt with a well-formed list.
ScenarioScripts == IF scenario = "single" THEN Scripts ELSE {<<"ok">>}

ClassifyBodies ==
  IF scenario = "single"
  THEN {[kind |-> "list", items |-> l] : l \in ItemLists}
         \cup {[kind |-> k, items |-> <<>>] : k \in BodyKinds \ {"list"}}
  ELSE IF scenario = "review"
  THEN {[kind |-> "list", items |-> l] : l \in ReviewLists}
  ELSE {[kind |-> "list", items |-> l] : l \in ConcurrentLists}

WellFormed == IF scenario = "single" THEN BOOLEAN ELSE {TRUE}

NoSummary ==
  [total_materials |-> -1, successful_matches |-> -1,
   knowledge_base_matches |-> -1, comparison_mode |-> "none"]

\* A run's frame before executor.submit.
\* The locals are named as in _process_workflow_async.  Three fields record
\* history: translation_failed, the translation call of this run raised
\* inside translate_to_english; api_exhausted, the classification call of
\* this run was rate-limited on every attempt; response_malformed, the
\* classification call of this run was answered with a body that is not
\* JSON or is JSON but not a list.
NoRun ==
  [pc |-> "none", wi_path |-> "none", item_path |-> FALSE,
   comparison_mode |-> "none", wi_content |-> "none",
   translated_wi_content |-> "none", translation_failed |-> FALSE,
   api_exhausted |-> FALSE, response_malformed |-> FALSE,
   extracted_items |-> <<>>, deduplicated_items |-> <<>>,
   items_to_auto_register |-> <<>>, items_for_human_review |-> <<>>,
   k |-> 0, summary |-> NoSummary]

\* No function is called on its own while the service runs.
NoProbe == [op |-> "none"]

Init ==
  /\ probe = NoProbe
  /\ scenario \in Scenarios
  /\ issued = 0
  /\ workflows = <<>>
  /\ uploads = {}
  /\ results_files = <<>>
  /\ workflow_results = <<>>
  /\ pending_approvals = <<>>
  /\ knowledge_base = <<>>
  /\ autoinc = [kb |-> 0, pa |-> 0, wr |-> 0]
  /\ queue = <<>>
  /\ run = [w \in Ids |-> NoRun]
  /\ del = [id |-> 0, pc |-> "idle", existed |-> FALSE]

\* ---------------------------------------------------------------- models
\* WorkflowModel.create_workflow: the columns not given take their DEFAULT.
create_workflow(w, mode, doc, im) ==
  [x \in DOMAIN workflows \cup {w} |->
     IF x = w
     THEN [status |-> "pending", progress |-> 0, current_stage |-> "",
           message |-> "", comparison_mode |-> mode,
           wi_document_path |-> doc, item_master_path |-> im]
     ELSE workflows[x]]

NoProgress == -1

\* The UPDATE that writes progress 0 when no progress is given.
update_workflow_status_reset(w, status, progress, stage, message) ==
  [workflows EXCEPT
     ![w] = [@ EXCEPT
               !.status = status,
               !.progress = IF progress # NoProgress THEN progress ELSE 0,
               !.current_stage = IF stage # "" THEN stage ELSE @,
               !.message = IF message # "" THEN message ELSE @]]

\* The UPDATE without its WHERE clause: every row is written.
update_workflow_status_all(w, status, progress, stage, message) ==
  [x \in DOMAIN workflows |->
     [workflows[x] EXCEPT
        !.status = status,
        !.progress = IF progress # NoProgress THEN progress ELSE @,
        !.current_stage = IF stage # "" THEN stage ELSE @,
        !.message = IF message # "" THEN message ELSE @]]

\* WorkflowModel.update_workflow_status: UPDATE ... WHERE id = ?
update_workflow_status(w, status, progress, stage, message) ==
  [x \in DOMAIN workflows |->
     IF x = w
     THEN [workflows[x] EXCEPT
             !.status = status,
             !.progress = IF progress # NoProgress THEN progress ELSE @,
             !.current_stage = IF stage # "" THEN stage ELSE @,
             !.message = IF message # "" THEN message ELSE @]
     ELSE workflows[x]]

\* WorkflowModel.delete_workflow: DELETE FROM workflows WHERE id = ?
delete_workflow_row(w) ==
  [x \in DOMAIN workflows \ {w} |-> workflows[x]]

\* WorkflowModel.delete_workflow_results
delete_workflow_results(w) ==
  LET Keep(r) == r.workflow_id # w IN SelectSeq(workflow_results, Keep)

\* PendingApprovalModel.delete_pending_items_by_workflow
delete_pending_items_by_workflow(w) ==
  LET Keep(r) == r.workflow_id # w IN SelectSeq(pending_approvals, Keep)

\* KnowledgeBaseModel.add_item violates material_name TEXT NOT NULL when the
\* item has no material_name.
AddItemViolatesNotNull(match) == Get(match.material_name) = Null

\* KnowledgeBaseModel.add_item (metadata = json.dumps(match)).  pending_id
\* records history: the pending-approval record the entry was created from,
\* 0 for an entry the run registered itself.
add_item(w, match) ==
  Append(knowledge_base,
         [id |-> autoinc.kb + 1, workflow_id |-> w, approved_by |-> "system",
          metadata |-> match, pending_id |-> 0])

\* PendingApprovalModel.add_pending_item (item_data = json.dumps(match))
add_pending_item(w, match) ==
  Append(pending_approvals,
         [id |-> autoinc.pa + 1, workflow_id |-> w, item_data |-> match,
          status |-> "pending", reviewed_by |-> "none",
          review_notes |-> "none"])

\* PendingApprovalModel.get_pending_items()
get_pending_items ==
  LET IsPending(r) == r.status = "pending"
  IN SelectSeq(pending_approvals, IsPending)

\* PendingApprovalModel.update_approval_status: UPDATE ... WHERE id IN (...)
update_approval_status(item_ids, status, reviewer, notes) ==
  [i \in DOMAIN pending_approvals |->
     IF pending_approvals[i].id \in item_ids
     THEN [pending_approvals[i] EXCEPT !.status = status,
                                       !.reviewed_by = reviewer,
                                       !.review_notes = notes]
     ELSE pending_approvals[i]]


\* -------------------------------------------------------------- handlers
\* The request handlers of main.py are coroutines whose bodies never await:
\* the event loop serves one at a time, while the executor's threads run
\* beside it.
HandlerFree == del.pc \in {"idle", "returned", "raised"}

\* upload_documents -> WorkflowService.start_workflow, all of it done.
start_workflow(sub, doc) ==
  /\ HandlerFree
  /\ issued < SubmissionLimit
  /\ doc \in ScenarioDocs
  /\ LET w == issued + 1
     IN /\ issued' = w
        /\ uploads' = uploads \cup {w}
        /\ workflows' = create_workflow(w, sub.mode, doc, sub.item_master)
        /\ queue' = Append(queue, w)
        /\ run' = [run EXCEPT ![w] =
                     [NoRun EXCEPT !.pc = "queued", !.wi_path = doc,
                                   !.item_path = sub.item_master,
                                   !.comparison_mode = sub.mode]]
  /\ UNCHANGED <<probe, scenario, results_files, workflow_results,
                 pending_approvals, knowledge_base, autoinc, del>>

\* start_workflow when create_workflow raises: the uploads are stored, no
\* row is inserted and nothing is submitted.
start_workflow_fails ==
  /\ HandlerFree
  /\ issued < SubmissionLimit
  /\ issued' = issued + 1
  /\ uploads' = uploads \cup {issued + 1}
  /\ UNCHANGED <<probe, scenario, workflows, results_files, workflow_results,
                 pending_approvals, knowledge_base, autoinc, queue, run, del>>

\* The sets of record ids an approval or rejection request names.
IdSets == SUBSET {1, 2} \ {{}}

\* The loop of approve_items over the pending records it was given, latest
\* first (ORDER BY created_at DESC): add_item, whose exception (the item has
\* no material_name) is caught and printed.  workflow_id is
\* item_data.get('workflow_id'), a key no item has: None, written 0.
RECURSIVE ApproveLoop(_, _, _)
ApproveLoop(rows, n, kb) ==
  IF n = 0 THEN kb
  ELSE LET item == rows[n]
           added ==
             IF AddItemViolatesNotNull(item.item_data) THEN kb
             ELSE Append(kb, [id |-> autoinc.kb + 1 + Len(kb) - Len(knowledge_base),
                              workflow_id |-> 0, approved_by |-> "system",
                              metadata |-> item.item_data,
                              pending_id |-> item.id])
       IN ApproveLoop(rows, n - 1, added)

\* approve_knowledge_base_item -> KnowledgeBaseService.approve_items
approve_items(item_ids) ==
  /\ scenario = "review"
  /\ HandlerFree
  /\ LET Named(r) == r.id \in item_ids
         pending_items_to_approve == SelectSeq(get_pending_items, Named)
         kb == ApproveLoop(pending_items_to_approve,
                           Len(pending_items_to_approve), knowledge_base)
     IN /\ knowledge_base' = kb
        /\ autoinc' = [autoinc EXCEPT
                         !.kb = @ + Len(kb) - Len(knowledge_base)]
  /\ pending_approvals' =
       update_approval_status(item_ids, "approved", "system",
                              "Approved for knowledge base")
  /\ UNCHANGED <<probe, scenario, issued, workflows, uploads, results_files,
                 workflow_results, queue, run, del>>

\* reject_knowledge_base_item -> KnowledgeBaseService.reject_items
reject_items(item_ids) ==
  /\ scenario = "review"
  /\ HandlerFree
  /\ pending_approvals' =
       update_approval_status(item_ids, "rejected", "system",
                              "Rejected from knowledge base")
  /\ UNCHANGED <<probe, scenario, issued, workflows, uploads, results_files,
                 workflow_results, knowledge_base, autoinc, queue, run, del>>

\* WorkflowService.get_workflow_status, called in the current state.
get_workflow_status(w) ==
  IF w \in DOMAIN workflows
  THEN [outcome |-> "ok", row |-> workflows[w]]
  ELSE [outcome |-> "not_found", row |-> <<>>]

\* WorkflowService.get_workflow_results, called in the current state:
\* os.path.exists, then json.load of whatever the file holds.
get_workflow_results(w) ==
  IF w \notin DOMAIN results_files
  THEN [outcome |-> "not_found", matches |-> <<>>, summary |-> NoSummary]
  ELSE IF ~results_files[w].complete
       THEN [outcome |-> "decode_error", matches |-> <<>>,
             summary |-> NoSummary]
       ELSE [outcome |-> "ok", matches |-> results_files[w].matches,
             summary |-> results_files[w].summary]

\* WorkflowService.delete_workflow, one statement at a time: each statement
\* takes effect, or raises and the handler answers 500 ("raised").
\* The frame's field existed is history: the workflow row was there when
\* the request arrived.
\* delete_workflow(id): WorkflowModel.delete_workflow(workflow_id)
delete_workflow(w) ==
  /\ scenario = "single"
  /\ HandlerFree
  /\ w \in 1..issued
  /\ \/ /\ workflows' = delete_workflow_row(w)
        /\ del' = [id |-> w, pc |-> "results",
                   existed |-> w \in DOMAIN workflows]
     \/ /\ UNCHANGED workflows
        /\ del' = [id |-> w, pc |-> "raised",
                   existed |-> w \in DOMAIN workflows]
  /\ UNCHANGED <<probe, scenario, issued, uploads, results_files, workflow_results,
                 pending_approvals, knowledge_base, autoinc, queue, run>>

\* WorkflowModel.delete_workflow_results(workflow_id)
delete_results_rows(w) ==
  /\ del.id = w /\ del.pc = "results"
  /\ \/ /\ workflow_results' = delete_workflow_results(w)
        /\ del' = [del EXCEPT !.pc = "pending"]
     \/ /\ UNCHANGED workflow_results
        /\ del' = [del EXCEPT !.pc = "raised"]
  /\ UNCHANGED <<probe, scenario, issued, workflows, uploads, results_files,
                 pending_approvals, knowledge_base, autoinc, queue, run>>

\* PendingApprovalModel.delete_pending_items_by_workflow(workflow_id)
delete_pending_rows(w) ==
  /\ del.id = w /\ del.pc = "pending"
  /\ \/ /\ pending_approvals' = delete_pending_items_by_workflow(w)
        /\ del' = [del EXCEPT !.pc = "dir"]
     \/ /\ UNCHANGED pending_approvals
        /\ del' = [del EXCEPT !.pc = "raised"]
  /\ UNCHANGED <<probe, scenario, issued, workflows, uploads, results_files,
                 workflow_results, knowledge_base, autoinc, queue, run>>

\* if os.path.exists(workflow_dir): shutil.rmtree(workflow_dir)
delete_upload_dir(w) ==
  /\ del.id = w /\ del.pc = "dir"
  /\ \/ /\ uploads' = uploads \ {w}
        /\ del' = [del EXCEPT !.pc = "file"]
     \/ /\ w \in uploads
        /\ UNCHANGED uploads
        /\ del' = [del EXCEPT !.pc = "raised"]
  /\ UNCHANGED <<probe, scenario, issued, workflows, results_files, workflow_results,
                 pending_approvals, knowledge_base, autoinc, queue, run>>

\* if os.path.exists(results_file): os.remove(results_file); return success
delete_results_file(w) ==
  /\ del.id = w /\ del.pc = "file"
  /\ \/ /\ results_files' =
             [x \in DOMAIN results_files \ {w} |-> results_files[x]]
        /\ del' = [del EXCEPT !.pc = "returned"]
     \/ /\ w \in DOMAIN results_files
        /\ UNCHANGED results_files
        /\ del' = [del EXCEPT !.pc = "raised"]
  /\ UNCHANGED <<probe, scenario, issued, workflows, uploads, workflow_results,
                 pending_approvals, knowledge_base, autoinc, queue, run>>


\* ------------------------------------------------- _process_workflow_async
\* The frame once the try block is left: its locals are dead (the handler
\* reads none of them); the history stays.
Left(w, pc) ==
  [NoRun EXCEPT !.pc = pc,
                !.translation_failed = run[w].translation_failed,
                !.api_exhausted = run[w].api_exhausted,
                !.response_malformed = run[w].response_malformed]

Executing(w) == run[w].pc \notin {"none", "queued", "done", "crashed"}

\* An executor that starts a thread for every submitted call.
worker_start_unbounded(w) ==
  /\ queue # <<>>
  /\ Head(queue) = w
  /\ queue' = Tail(queue)
  /\ run' = [run EXCEPT ![w].pc = "status10"]
  /\ UNCHANGED <<probe, scenario, issued, workflows, uploads, results_files,
                 workflow_results, pending_approvals, knowledge_base,
                 autoinc, del>>

\* A free thread of the executor takes the oldest submitted call.
worker_start(w) ==
  /\ queue # <<>>
  /\ Head(queue) = w
  /\ Cardinality({x \in Ids : Executing(x)}) < MAX_WORKERS
  /\ queue' = Tail(queue)
  /\ run' = [run EXCEPT ![w].pc = "status10"]
  /\ UNCHANGED <<probe, scenario, issued, workflows, uploads, results_files, workflow_results,
                 pending_approvals, knowledge_base, autoinc, del>>

\* One call of update_workflow_status inside the try block: the UPDATE is
\* committed and the run goes on, or the call raises.
StatusUpdate(w, at, status, progress, stage, message, next) ==
  /\ run[w].pc = at
  /\ \/ /\ workflows' =
             update_workflow_status(w, status, progress, stage, message)
        /\ run' = [run EXCEPT ![w] =
                     IF next = "done" THEN Left(w, "done")
                     ELSE [run[w] EXCEPT !.pc = next]]
     \/ /\ UNCHANGED workflows
        /\ run' = [run EXCEPT ![w] = Left(w, "except")]
  /\ UNCHANGED <<probe, scenario, issued, uploads, results_files, workflow_results,
                 pending_approvals, knowledge_base, autoinc, queue, del>>

status_extracting(w) ==
  StatusUpdate(w, "status10", "processing", 10, "extracting",
               "Extracting data from documents", "extract")

\* DocumentParser.extract_text: raises for an unsupported extension, logs
\* and returns "" when a supported file cannot be parsed.
extract_text(doc) ==
  CASE doc = "unsupported" -> [raised |-> TRUE, text |-> "none"]
    [] doc = "unreadable" -> [raised |-> FALSE, text |-> "empty"]
    [] OTHER -> [raised |-> FALSE, text |-> "text"]

\* extract_text, parse_item_master (never raises), kb_service.get_items
extract(w) ==
  /\ run[w].pc = "extract"
  /\ LET r == extract_text(run[w].wi_path)
     IN \/ /\ ~r.raised
           /\ run' = [run EXCEPT ![w].pc = "status30",
                                 ![w].wi_content = r.text]
        \/ run' = [run EXCEPT ![w] = Left(w, "except")]
  /\ UNCHANGED <<probe, scenario, issued, workflows, uploads, results_files, workflow_results,
                 pending_approvals, knowledge_base, autoinc, queue, del>>

\* The run that starts the translation without writing its stage first.
status_translating_skipped(w) ==
  /\ run[w].pc = "status30"
  /\ run' = [run EXCEPT ![w].pc = "translate"]
  /\ UNCHANGED <<probe, scenario, issued, workflows, uploads, results_files,
                 workflow_results, pending_approvals, knowledge_base,
                 autoinc, queue, del>>

status_translating(w) ==
  StatusUpdate(w, "status30", "processing", 30, "translating",
               "Translating document to English", "translate")

translate(w) ==
  /\ run[w].pc = "translate"
  /\ \E script \in ScenarioScripts, wellformed \in WellFormed :
       run' = [run EXCEPT
                 ![w].pc = "status50",
                 ![w].wi_content = "none",
                 ![w].translation_failed =
                    translate_to_english(run[w].wi_content, script,
                                         wellformed) # "english",
                 ![w].translated_wi_content =
                    translate_to_english(run[w].wi_content, script, wellformed)]
  /\ UNCHANGED <<probe, scenario, issued, workflows, uploads, results_files, workflow_results,
                 pending_approvals, knowledge_base, autoinc, queue, del>>

status_classifying(w) ==
  StatusUpdate(w, "status50", "processing", 50, "classifying",
               "Classifying and matching items with Gemini", "classify")

RateLimitedThroughout(script) ==
  Len(script) = MAX_RETRIES /\ \A i \in 1..Len(script) : script[i] = "429"

\* The call was answered, with a body that is not JSON or not a list.
MalformedAnswer(script, body) ==
  /\ _call_api_with_retry(script).outcome = "response"
  /\ body.kind \in {"malformed", "not_list"}

classify(w) ==
  /\ run[w].pc = "classify"
  /\ \E script \in ScenarioScripts, body \in ClassifyBodies :
       run' = [run EXCEPT
                 ![w].pc = "dedup",
                 ![w].translated_wi_content = "none",
                 ![w].api_exhausted = RateLimitedThroughout(script),
                 ![w].response_malformed = MalformedAnswer(script, body),
                 ![w].extracted_items =
                    extract_and_classify_items(script, body)]
  /\ UNCHANGED <<probe, scenario, issued, workflows, uploads, results_files, workflow_results,
                 pending_approvals, knowledge_base, autoinc, queue, del>>

IsAutoRegister(item) == Get(item.action_path) = AutoRegister
\* The split with two independent tests, the second one always true.
IsForReview_all(item) == TRUE

IsForReview(item) == ~IsAutoRegister(item)

\* The sink statements still to run, in program order.
AfterSplit(auto, review) ==
  IF auto # <<>> THEN "kb" ELSE IF review # <<>> THEN "pending" ELSE "save"

\* _deduplicate_items and the routing split
dedup_and_split(w) ==
  /\ run[w].pc = "dedup"
  /\ LET d == _deduplicate_items(run[w].extracted_items)
         auto == SelectSeq(d.items, IsAutoRegister)
         review == SelectSeq(d.items, IsForReview)
     IN IF d.raised
        THEN run' = [run EXCEPT ![w] = Left(w, "except")]
        ELSE run' = [run EXCEPT
                       ![w].pc = AfterSplit(auto, review),
                       ![w].extracted_items = <<>>,
                       ![w].deduplicated_items = d.items,
                       ![w].items_to_auto_register = auto,
                       ![w].items_for_human_review = review,
                       ![w].k = 1]
  /\ UNCHANGED <<probe, scenario, issued, workflows, uploads, results_files, workflow_results,
                 pending_approvals, knowledge_base, autoinc, queue, del>>

\* _add_to_knowledge_base: one iteration of its loop
add_to_knowledge_base(w) ==
  /\ run[w].pc = "kb"
  /\ LET f == run[w]
         match == f.items_to_auto_register[f.k]
         last == f.k = Len(f.items_to_auto_register)
         next == IF last THEN AfterSplit(<<>>, f.items_for_human_review)
                 ELSE "kb"
         go == [run EXCEPT ![w].pc = next,
                           ![w].k = IF last THEN 1 ELSE f.k + 1]
     IN IF ~IsDict(match)
        THEN run' = go /\ UNCHANGED <<knowledge_base, autoinc>>
        ELSE \/ /\ ~AddItemViolatesNotNull(match)
                /\ knowledge_base' = add_item(w, match)
                /\ autoinc' = [autoinc EXCEPT !.kb = @ + 1]
                /\ run' = go
             \/ /\ run' = [run EXCEPT ![w] = Left(w, "except")]
                /\ UNCHANGED <<knowledge_base, autoinc>>
  /\ UNCHANGED <<probe, scenario, issued, workflows, uploads, results_files, workflow_results,
                 pending_approvals, queue, del>>

\* _create_pending_approvals: one iteration of its loop
create_pending_approvals(w) ==
  /\ run[w].pc = "pending"
  /\ LET f == run[w]
         match == f.items_for_human_review[f.k]
         last == f.k = Len(f.items_for_human_review)
         go == [run EXCEPT ![w].pc = IF last THEN "save" ELSE "pending",
                           ![w].k = IF last THEN 1 ELSE f.k + 1]
     IN IF ~IsDict(match)
        THEN run' = go /\ UNCHANGED <<pending_approvals, autoinc>>
        ELSE \/ /\ pending_approvals' = add_pending_item(w, match)
                /\ autoinc' = [autoinc EXCEPT !.pa = @ + 1]
                /\ run' = go
             \/ /\ run' = [run EXCEPT ![w] = Left(w, "except")]
                /\ UNCHANGED <<pending_approvals, autoinc>>
  /\ UNCHANGED <<probe, scenario, issued, workflows, uploads, results_files, workflow_results,
                 knowledge_base, queue, del>>


\* The summary that counts every item as a successful match.
_generate_summary_all(items, comparison_mode) ==
  [total_materials |-> Len(items),
   successful_matches |-> Len(items),
   knowledge_base_matches |-> 0,
   comparison_mode |-> comparison_mode]

\* _generate_summary (items is always a list here)
_generate_summary(items, comparison_mode) ==
  LET Successful(item) == IsDict(item) /\ IsAutoRegister(item)
  IN [total_materials |-> Len(items),
      successful_matches |-> Len(SelectSeq(items, Successful)),
      knowledge_base_matches |-> 0,
      comparison_mode |-> comparison_mode]

PutFile(w, file) ==
  [x \in DOMAIN results_files \cup {w} |->
     IF x = w THEN file ELSE results_files[x]]

\* The run that goes on to the final status update without saving.
save_open_skipped(w) ==
  /\ run[w].pc = "save"
  /\ run' = [run EXCEPT ![w].pc = "status100"]
  /\ UNCHANGED <<probe, scenario, issued, workflows, uploads, results_files,
                 workflow_results, pending_approvals, knowledge_base,
                 autoinc, queue, del>>

\* _generate_summary, then _save_workflow_results up to open(results_file,
\* 'w'): the file exists and holds nothing yet.
save_open(w) ==
  /\ run[w].pc = "save"
  /\ \/ /\ results_files' =
             PutFile(w, [complete |-> FALSE, matches |-> <<>>,
                         summary |-> NoSummary])
        /\ run' = [run EXCEPT
                     ![w].pc = "dump",
                     ![w].summary =
                        _generate_summary(run[w].deduplicated_items,
                                          run[w].comparison_mode)]
     \/ /\ UNCHANGED results_files
        /\ run' = [run EXCEPT ![w] = Left(w, "except")]
  /\ UNCHANGED <<probe, scenario, issued, workflows, uploads, workflow_results,
                 pending_approvals, knowledge_base, autoinc, queue, del>>

\* json.dump(...) and the close of the file; a write that fails leaves
\* what was written.
save_dump(w) ==
  /\ run[w].pc = "dump"
  /\ \/ /\ results_files' =
             PutFile(w, [complete |-> TRUE,
                         matches |-> run[w].deduplicated_items,
                         summary |-> run[w].summary])
        /\ run' = [run EXCEPT ![w].pc = "insert"]
     \/ /\ results_files' =
             PutFile(w, [complete |-> FALSE, matches |-> <<>>,
                         summary |-> NoSummary])
        /\ run' = [run EXCEPT ![w] = Left(w, "except")]
  /\ UNCHANGED <<probe, scenario, issued, workflows, uploads, workflow_results,
                 pending_approvals, knowledge_base, autoinc, queue, del>>

\* INSERT INTO workflow_results
save_row(w) ==
  /\ run[w].pc = "insert"
  /\ \/ /\ workflow_results' =
             Append(workflow_results,
                    [id |-> autoinc.wr + 1, workflow_id |-> w,
                     results_data |-> run[w].deduplicated_items,
                     summary_data |-> run[w].summary])
        /\ autoinc' = [autoinc EXCEPT !.wr = @ + 1]
        /\ run' = [run EXCEPT ![w].pc = "status100"]
     \/ /\ UNCHANGED <<workflow_results, autoinc>>
        /\ run' = [run EXCEPT ![w] = Left(w, "except")]
  /\ UNCHANGED <<probe, scenario, issued, workflows, uploads, results_files,
                 pending_approvals, knowledge_base, queue, del>>

status_completed(w) ==
  StatusUpdate(w, "status100", "completed", 100, "completed",
               "Processing completed successfully", "done")

\* except Exception as e: update_workflow_status(workflow_id, 'error',
\* message=...); when this call raises too, the exception leaves the run.
status_error(w) ==
  /\ run[w].pc = "except"
  /\ \/ /\ workflows' =
             update_workflow_status(w, "error", NoProgress, "",
                                    "Processing failed")
        /\ run' = [run EXCEPT ![w] = Left(w, "done")]
     \/ /\ UNCHANGED workflows
        /\ run' = [run EXCEPT ![w] = Left(w, "crashed")]
  /\ UNCHANGED <<probe, scenario, issued, uploads, results_files, workflow_results,
                 pending_approvals, knowledge_base, autoinc, queue, del>>

\* ------------------------------------------------------------ the system
Next ==
  \/ \E sub \in Submissions, doc \in Docs : start_workflow(sub, doc)
  \/ start_workflow_fails
  \/ \E item_ids \in IdSets : approve_items(item_ids)
  \/ \E item_ids \in IdSets : reject_items(item_ids)
  \/ \E w \in Ids :
       \/ delete_workflow(w)
       \/ delete_results_rows(w)
       \/ delete_pending_rows(w)
       \/ delete_upload_dir(w)
       \/ delete_results_file(w)
       \/ worker_start(w)
       \/ status_extracting(w)
       \/ extract(w)
       \/ status_translating(w)
       \/ translate(w)
       \/ status_classifying(w)
       \/ classify(w)
       \/ dedup_and_split(w)
       \/ add_to_knowledge_base(w)
       \/ create_pending_approvals(w)
       \/ save_open(w)
       \/ save_dump(w)
       \/ save_row(w)
       \/ status_completed(w)
       \/ status_error(w)

Spec == Init /\ [][Next]_vars


\* The steps of the run of workflow w, on a thread of the executor.
WorkerStep(w) ==
  \/ worker_start(w)
  \/ status_extracting(w)
  \/ extract(w)
  \/ status_translating(w)
  \/ translate(w)
  \/ status_classifying(w)
  \/ classify(w)
  \/ dedup_and_split(w)
  \/ add_to_knowledge_base(w)
  \/ create_pending_approvals(w)
  \/ save_open(w)
  \/ save_dump(w)
  \/ save_row(w)
  \/ status_completed(w)
  \/ status_error(w)

\* The executor's threads are scheduled fairly, and every call they make
\* returns; requests arrive or not.
FairSpec == Spec /\ \A w \in Ids : WF_vars(WorkerStep(w))

\* ------------------------------------------------------------ properties
Rows(table, w) ==
  LET Mine(r) == r.workflow_id = w IN SelectSeq(table, Mine)

Terminal(status) == status \in {"completed", "error"}

\* C1: a workflow's status only moves pending -> processing -> completed or
\* pending/processing -> error, and once it is completed or error no step
\* (of its own run or of another workflow's run) changes its status,
\* progress or current_stage again.
C1_StatusOneWay ==
  [][\A w \in (DOMAIN workflows) \cap (DOMAIN workflows') :
       LET a == workflows[w]
           b == workflows'[w]
       IN /\ \/ a.status = b.status
             \/ <<a.status, b.status>> \in
                  {<<"pending", "processing">>, <<"processing", "completed">>,
                   <<"pending", "error">>, <<"processing", "error">>}
          /\ Terminal(a.status) =>
               /\ b.status = a.status
               /\ b.progress = a.progress
               /\ b.current_stage = a.current_stage]_vars

\* Two workflows have run side by side: one ended in error, one completed.
C1_Witness ==
  \E w1, w2 \in DOMAIN workflows :
    /\ workflows[w1].status = "error"
    /\ workflows[w2].status = "completed"


NoResult(w) ==
  /\ w \notin DOMAIN results_files
  /\ Rows(workflow_results, w) = <<>>

\* The run of w has left its try block by an exception.
InHandler(w) == run[w].pc \in {"except", "done", "crashed"}

\* C2: if a step of the asynchronous run raises, the workflow ends with
\* status error and no WorkflowResult (results file or workflow_results
\* row) exists for it.
C2_FailureLeavesNoResult ==
  \A w \in DOMAIN workflows :
    /\ run[w].pc = "except" => NoResult(w)
    /\ (run[w].pc = "done" /\ workflows[w].status # "completed") =>
         /\ workflows[w].status = "error"
         /\ NoResult(w)

\* C3: a workflow whose translation call throws goes to the failure
\* handler: it runs no classification, is never completed, ends in error
\* and never has a WorkflowResult.
C3_TranslationFailureIsError ==
  \A w \in DOMAIN workflows :
    run[w].translation_failed =>
      /\ InHandler(w)
      /\ workflows[w].status # "completed"
      /\ run[w].pc = "done" => workflows[w].status = "error"
      /\ NoResult(w)

\* C4: a workflow whose classification call is rate-limited on all five
\* attempts goes to the failure handler: it ends in error and is never
\* completed.
C4_ExhaustedRetriesIsError ==
  \A w \in DOMAIN workflows :
    run[w].api_exhausted =>
      /\ InHandler(w)
      /\ workflows[w].status # "completed"
      /\ run[w].pc = "done" => workflows[w].status = "error"

SinkCount(table, w, field, item) ==
  LET Holds(r) == r.workflow_id = w /\ r[field] = item
  IN Len(SelectSeq(table, Holds))

\* C5: in a completed run every merged item has gone to exactly one sink: it
\* has exactly one knowledge-base entry and no pending record when its
\* action_path is the auto-register path, exactly one pending record and no
\* knowledge-base entry otherwise; the run wrote nothing else to the sinks.
C5_ExactlyOneSink ==
  \A w \in DOMAIN workflows :
    workflows[w].status = "completed" =>
      LET merged == get_workflow_results(w).matches
      IN /\ \A i \in 1..Len(merged) :
              LET auto == Get(merged[i].action_path) = AutoRegister
              IN /\ SinkCount(knowledge_base, w, "metadata", merged[i]) =
                      IF auto THEN 1 ELSE 0
                 /\ SinkCount(pending_approvals, w, "item_data", merged[i]) =
                      IF auto THEN 0 ELSE 1
         /\ Len(Rows(knowledge_base, w)) + Len(Rows(pending_approvals, w)) =
              Len(merged)

\* A completed run that merged an auto-register item and an item of another
\* path.
C5_Witness ==
  \E w \in DOMAIN workflows :
    /\ workflows[w].status = "completed"
    /\ Len(Rows(knowledge_base, w)) = 1
    /\ Len(Rows(pending_approvals, w)) = 1
    /\ Len(get_workflow_results(w).matches) = 2

\* C6: a workflow that is not deleted and whose status is completed has
\* progress 100 and its WorkflowResult: the results file is complete, the
\* workflow_results row is there, and get_workflow_results answers with the
\* document.
C6_CompletedHasResult ==
  \A w \in DOMAIN workflows :
    workflows[w].status = "completed" =>
      /\ workflows[w].progress = 100
      /\ get_workflow_results(w).outcome = "ok"
      /\ Rows(workflow_results, w) # <<>>

\* A completed workflow whose results hold an item.
C6_Witness ==
  \E w \in DOMAIN workflows :
    /\ workflows[w].status = "completed"
    /\ get_workflow_results(w).outcome = "ok"
    /\ get_workflow_results(w).matches # <<>>

\* The results document of w is on disk, whole.
ResultPersisted(w) ==
  /\ w \in DOMAIN results_files
  /\ results_files[w].complete

\* C7: get_workflow_results fails with the not-found error in every state in
\* which the result is not completely persisted, and answers with the
\* complete document otherwise; it never does anything else.
C7_ResultsAllOrNotFound ==
  \A w \in Ids :
    get_workflow_results(w).outcome =
      IF ResultPersisted(w) THEN "ok" ELSE "not_found"

DatabaseRecordsGone(w) ==
  /\ w \notin DOMAIN workflows
  /\ Rows(workflow_results, w) = <<>>
  /\ Rows(pending_approvals, w) = <<>>

FilesGone(w) ==
  /\ w \notin uploads
  /\ w \notin DOMAIN results_files

\* What the delete request in hand has reached.
Deleted == DatabaseRecordsGone(del.id) /\ FilesGone(del.id)
Orphaned ==
  /\ del.existed
  /\ DatabaseRecordsGone(del.id)
  /\ ~FilesGone(del.id)

\* C8: delete_workflow is all-or-nothing: when it returns, the workflow row,
\* its workflow_results rows, its pending records, its upload directory and
\* its results file are gone; when it fails, it does not leave the database
\* records deleted while stored files remain.
C8_DeleteAllOrNothing ==
  [][/\ (del'.pc = "returned" /\ del.pc # "returned") => Deleted'
     /\ (del'.pc = "raised" /\ del.pc # "raised") => ~Orphaned']_vars

\* C9: the summary of a completed workflow: total_materials is the number
\* of merged items, which is the number of knowledge-base entries plus the
\* number of pending records the run wrote; successful_matches is the
\* number of knowledge-base entries the run wrote.
C9_SummaryCounts ==
  \A w \in DOMAIN workflows :
    workflows[w].status = "completed" =>
      LET r == get_workflow_results(w)
      IN /\ r.summary.total_materials = Len(r.matches)
         /\ r.summary.total_materials =
              Len(Rows(knowledge_base, w)) + Len(Rows(pending_approvals, w))
         /\ r.summary.successful_matches = Len(Rows(knowledge_base, w))

\* A completed workflow of two merged items, one of them registered.
C9_Witness ==
  \E w \in DOMAIN workflows :
    /\ workflows[w].status = "completed"
    /\ get_workflow_results(w).summary.total_materials = 2
    /\ get_workflow_results(w).summary.successful_matches = 1

\* C10: with the executor's threads scheduled fairly and every call
\* returning, every submitted workflow eventually is completed or error
\* (or is deleted).
C10_EveryWorkflowEnds ==
  \A w \in Ids :
    [](w \in DOMAIN workflows =>
         <>(w \notin DOMAIN workflows \/ Terminal(workflows[w].status)))


InQueue(w) ==
  LET Is(x) == x = w IN Len(SelectSeq(queue, Is))

PoolWithinBound ==
  /\ Cardinality({w \in Ids : Executing(w)}) <= MAX_WORKERS
  /\ \A w \in Ids :
       /\ InQueue(w) = IF run[w].pc = "queued" THEN 1 ELSE 0
       /\ (run[w].pc = "queued" /\ w \in DOMAIN workflows) =>
            workflows[w].status = "pending"

\* C11: at every moment at most 4 pipelines are executing; a workflow
\* submitted while 4 are executing waits in the queue with status pending;
\* and a workflow's pipeline is started at most once: only from the queue,
\* where it is exactly once, and never again after it has started.
C11_PoolOfFour ==
  [][/\ PoolWithinBound'
     /\ \A w \in Ids :
          /\ (run'[w].pc = "status10" /\ run[w].pc # "status10") =>
               (run[w].pc = "queued" /\ Head(queue) = w)
          /\ (run'[w].pc = "queued" /\ run[w].pc # "queued") =>
               run[w].pc = "none"
          /\ run[w].pc # "none" => run'[w].pc # "none"]_vars

\* Four pipelines are executing and a fifth workflow waits, pending.
C11_Witness ==
  /\ Cardinality({w \in Ids : Executing(w)}) = MAX_WORKERS
  /\ \E w \in DOMAIN workflows :
       run[w].pc = "queued" /\ workflows[w].status = "pending"


Milestones == {0, 10, 30, 50, 100}

\* C12: over the life of a workflow progress never decreases and is one of
\* 0, 10, 30, 50, 100; progress is 100 exactly when status is completed;
\* and the step that sets status error leaves progress and current_stage
\* as the last stage entered wrote them.
C12_ProgressMilestones ==
  [][/\ \A w \in DOMAIN workflows' :
          /\ workflows'[w].progress \in Milestones
          /\ workflows'[w].progress = 100 <=>
               workflows'[w].status = "completed"
     /\ \A w \in (DOMAIN workflows) \cap (DOMAIN workflows') :
          /\ workflows'[w].progress >= workflows[w].progress
          /\ workflows'[w].status = "error" =>
               /\ workflows'[w].progress = workflows[w].progress
               /\ workflows'[w].current_stage = workflows[w].current_stage]_vars

\* A workflow that failed after it entered the classification stage.
C12_Witness ==
  \E w \in DOMAIN workflows :
    /\ workflows[w].status = "error"
    /\ workflows[w].progress = 50
    /\ workflows[w].current_stage = "classifying"


StageWritten(w, stage, progress) ==
  LET r == get_workflow_status(w)
  IN /\ r.outcome = "ok"
     /\ r.row.status = "processing"
     /\ r.row.current_stage = stage
     /\ r.row.progress = progress

\* C13: the status row is written before each stage's work starts: while
\* the extraction, translation or classification work of a workflow that
\* is not deleted is executing, get_workflow_status answers processing with
\* the current_stage and progress of exactly that stage (extracting/10,
\* translating/30, classifying/50).
C13_StatusBeforeStage ==
  \A w \in DOMAIN workflows :
    /\ run[w].pc = "extract" => StageWritten(w, "extracting", 10)
    /\ run[w].pc = "translate" => StageWritten(w, "translating", 30)
    /\ run[w].pc = "classify" => StageWritten(w, "classifying", 50)

\* Two runs are in the work of two different stages at once.
C13_Witness ==
  \E w1, w2 \in DOMAIN workflows :
    /\ run[w1].pc = "translate"
    /\ run[w2].pc = "classify"
    /\ StageWritten(w1, "translating", 30)
    /\ StageWritten(w2, "classifying", 50)


\* ------------------------------------------------------------------ router
\* WorkflowService._apply_classification_logic of
\* services/workflow_service_backup.py.  A word the router looks for
\* ('Ambiguous', 'Vague', 'OBSOLETE-PN') is one token of a string.

\* An extracted item, as a dict the router has not touched: the keys it adds
\* are missing (supplier_match is FALSE while its key is missing, flags is
\* the set of the boolean keys that are True).
RouterItem(mn, pn, qty, vn, kit, spec, multi) ==
  [material_name |-> mn, part_number |-> pn, qty |-> qty, vendor_name |-> vn,
   kit_available |-> kit, spec_match |-> spec, multiple_references |-> multi,
   kb_match |-> Absent, supplier_match |-> FALSE, flags |-> {},
   qa_classification_label |-> Absent, qa_confidence_level |-> Absent,
   reasoning |-> Absent, action_path |-> Absent,
   confidence_score |-> ScoreAbsent, qa_material_name |-> Absent]

\* KnowledgeBaseService.search_for_matches: one result per extracted item,
\* with the record find_best_match returned, or None.
search_for_matches(extracted_items, best_match) ==
  [i \in 1..Len(extracted_items) |->
     [original_item |-> extracted_items[i],
      kb_match |-> IF best_match # Null THEN best_match ELSE Null]]

_is_part_number_obsolete(pn) == pn = <<"OBSOLETE-PN">>

\* 'Ambiguous' in name or 'Vague' in name
_is_name_ambiguous(name) ==
  IsSubstr(<<"Ambiguous">>, name) \/ IsSubstr(<<"Vague">>, name)

has_pn(item) == Truthy(Get(item.part_number))

has_name(item) == Truthy(Get(item.material_name))

\* The test that finds no quantity anywhere.
has_qty_never(item) == FALSE

has_qty(item) == Get(item.qty) # Null /\ Get(item.qty) # <<>>

has_vendor(item) == Truthy(Get(item.vendor_name))

is_kit(item) == item.kit_available

pn_match_in_master(item, item_master_items) ==
  /\ has_pn(item)
  /\ \E i \in 1..Len(item_master_items) :
       Get(item_master_items[i].part_number) = Get(item.part_number)

\* The test that matches a name to no item master.
name_match_in_master_never(item, item_master_items) == FALSE

name_match_in_master(item, item_master_items) ==
  /\ has_name(item)
  /\ \E i \in 1..Len(item_master_items) :
       Get(item_master_items[i].material_name) = Get(item.material_name)

\* item.update({...}) of one rule
Update(item, flags, label, level, reasoning, path, score) ==
  [item EXCEPT !.flags = flags,
               !.kit_available = "kit_available" \in flags,
               !.qa_classification_label = label,
               !.qa_confidence_level = level,
               !.reasoning = reasoning,
               !.action_path = path,
               !.confidence_score = score]

\* The default state with the score the function's test expects.
NoMatch_tenth(item) ==
  Update(item, {}, <<"5">>, <<"low">>, <<"No match found">>, HumanReview, 10)

\* The default low-confidence state, written before the rules and again by
\* the catch-all rule 5.
NoMatch(item) ==
  Update(item, {}, <<"5">>, <<"low">>, <<"No match found">>, HumanReview, 0)

\* The items master and knowledge base enrichment attaches to the item.
Enrich(item, best_match) ==
  LET merged_items == search_for_matches(<<item>>, best_match)
  IN IF merged_items # <<>>
     THEN [item EXCEPT !.kb_match = GetOr(merged_items[1].kb_match, <<>>),
                       !.supplier_match = TRUE]
     ELSE item

\* 'Ambiguous' in None raises TypeError: the key is there and holds null.
AmbiguityCheckRaises(item) == item.material_name = Null

_apply_classification_logic(item, item_master_items, best_match) ==
  LET enriched == Enrich(item, best_match)
      pn_match == pn_match_in_master(enriched, item_master_items)
      name_match == name_match_in_master(enriched, item_master_items)
      initial ==
        [NoMatch(enriched) EXCEPT
           !.qa_material_name = Get(enriched.material_name)]
      returned(it) == [raised |-> FALSE, item |-> it]
  IN IF pn_match /\ has_qty(enriched) /\ has_name(enriched)
     THEN returned(Update(initial, {"pn_match", "is_consumable"}, <<"1">>,
                          <<"high">>, <<"Match to BOM & Item Master Data">>,
                          AutoRegister, 95))
     ELSE IF pn_match /\ has_qty(enriched) /\ enriched.spec_match
     THEN returned(Update(initial, {"pn_match", "is_consumable"}, <<"2">>,
                          <<"high">>, <<"Verify process parameters match">>,
                          AutoRegister, 90))
     ELSE IF pn_match /\ ~has_qty(enriched)
     THEN returned(Update(initial, {"pn_match", "is_consumable"}, <<"3">>,
                          <<"medium">>, <<"Infer qty from BOM history">>,
                          AutoFlag, 70))
     ELSE IF has_vendor(enriched) /\ ~has_pn(enriched) /\ ~has_name(enriched)
     THEN returned(Update(initial, {"vendor_name_only"}, <<"9">>,
                          <<"medium">>,
                          <<"Map vendor to consumable in master">>,
                          AutoFlag, 60))
     ELSE IF is_kit(enriched) /\ has_pn(enriched)
     THEN returned(Update(initial, {"kit_available", "is_consumable"},
                          <<"1", "1">>, <<"medium">>, <<"Expand kit BOM">>,
                          AutoFlag, 55))
     ELSE IF ~has_pn(enriched) /\ has_name(enriched) /\ has_qty(enriched)
     THEN returned(Update(initial, {"is_consumable"}, <<"1", "2">>,
                          <<"medium">>, <<"Merge WI with QC steps">>,
                          AutoFlag, 65))
     ELSE IF ~has_pn(enriched) /\ name_match
     THEN returned(Update(initial, {"is_consumable"}, <<"4">>, <<"low">>,
                          <<"Check for text match in master data">>,
                          HumanReview, 40))
     ELSE IF has_pn(enriched) /\ has_name(enriched) /\ ~pn_match
     THEN returned(Update(initial, {"pn_mismatch", "is_consumable"}, <<"6">>,
                          <<"low">>, <<"Compare QC vs BOM & Master Data">>,
                          HumanReview, 30))
     ELSE IF /\ _is_part_number_obsolete(GetOr(enriched.part_number, <<>>))
             /\ has_name(enriched)
     THEN returned(Update(initial, {"obsolete_pn", "is_consumable"}, <<"7">>,
                          <<"low">>, <<"Cross-check active/inactive status">>,
                          HumanReview, 20))
     ELSE IF AmbiguityCheckRaises(enriched)
     THEN [raised |-> TRUE, item |-> initial]
     ELSE IF _is_name_ambiguous(GetOr(enriched.material_name, <<>>))
     THEN returned(Update(initial, {"name_mismatch"}, <<"8">>, <<"low">>,
                          <<"NLP ambiguity score high">>, HumanReview, 35))
     ELSE IF enriched.multiple_references
     THEN returned(Update(initial, {}, <<"1", "0">>, <<"low">>,
                          <<"Detect multiple material refs">>,
                          HumanReview, 10))
     ELSE IF has_vendor(enriched) /\ is_kit(enriched) /\ ~has_pn(enriched)
     THEN returned(Update(initial, {}, <<"1", "3">>, <<"low">>,
                          <<"Map vendor, expand kit BOM">>, HumanReview, 25))
     ELSE returned(NoMatch(initial))


\* ------------------------------------------- functions called on their own
\* What the service answers to each attempt a call could make, one more
\* than the call may make.
ProbeScripts == [1..(MAX_RETRIES + 1) -> Responses]

\* The bodies a 2xx answer of the classification call may hold.
ProbeBodies ==
  {[kind |-> "list", items |-> l] : l \in ItemLists}
    \cup {[kind |-> k, items |-> <<>>] : k \in BodyKinds \ {"list"}}

\* Items to deduplicate: five that share the key of "a"/"p" under
\* different spellings, three whose two fields are both empty, two with
\* one field each, and three that are not of the item type (a null score,
\* a null reasoning, a JSON value that is not an object).
ProbeItems ==
  {Item("dict", <<"A">>, <<"p">>, <<"x">>, 90, AutoRegister, <<"1">>),
   Item("dict", <<" ", "a">>, <<"P">>, <<"y">>, 30, HumanReview, <<"6">>),
   Item("dict", <<"a", " ">>, <<"p", " ">>, Absent, ScoreAbsent, AutoFlag,
        Absent),
   Item("dict", <<"a">>, <<"p">>, <<"x">>, 0, Absent, <<"1">>),
   Item("dict", <<"a">>, <<"p">>, <<>>, 30, <<"?", "?">>, Null),
   Item("dict", Null, Null, Absent, ScoreAbsent, AutoRegister, Absent),
   Item("dict", <<>>, Absent, <<"y">>, 30, HumanReview, <<"6">>),
   Item("dict", <<" ">>, <<>>, <<"x">>, 90, AutoRegister, <<"1">>),
   Item("dict", <<"b">>, Null, Absent, ScoreAbsent, AutoRegister, Absent),
   Item("dict", Null, <<"b">>, <<"x">>, 90, AutoRegister, <<"1">>),
   Item("dict", <<"A">>, <<"p">>, <<"x">>, ScoreNull, AutoRegister, <<"1">>),
   Item("dict", <<"a">>, <<"p">>, Null, 30, HumanReview, <<"6">>),
   Item("other", Absent, Absent, Absent, ScoreAbsent, Absent, Absent)}

\* Lists of up to one item more than a response holds in the service runs.
ProbeLists == UNION {[1..n -> ProbeItems] : n \in 0..(MaxItems + 1)}

\* Items to route: a name that is missing, null, empty, in the item master,
\* not in it, or ambiguous; a part number that is missing, null, empty, in
\* the item master, not in it, or the obsolete one.
RouterNames ==
  {Absent, Null, <<>>, <<"s">>, <<"n">>, <<"n", "Ambiguous">>, <<"Vague">>}

RouterPartNumbers ==
  {Absent, Null, <<>>, <<"1">>, <<"9">>, <<"OBSOLETE-PN">>}

RouterQuantities == {Absent, Null, <<>>, <<"1">>}

RouterVendors == {Absent, <<>>, <<"v">>}

RouterItems ==
  {RouterItem(mn, pn, qty, vn, kit, spec, multi) :
     mn \in RouterNames, pn \in RouterPartNumbers, qty \in RouterQuantities,
     vn \in RouterVendors, kit \in BOOLEAN, spec \in BOOLEAN,
     multi \in BOOLEAN}

\* Item masters: none, the one of the function's tests, one that also lists
\* the obsolete part and the second name, one whose row has no part number.
ItemMasters ==
  {<<>>,
   <<[part_number |-> <<"1">>, material_name |-> <<"s">>]>>,
   <<[part_number |-> <<"1">>, material_name |-> <<"s">>],
     [part_number |-> <<"OBSOLETE-PN">>, material_name |-> <<"n">>]>>,
   <<[part_number |-> Absent, material_name |-> <<"Vague">>]>>}

\* What find_best_match returns: None, or the knowledge base record.
BestMatches == {Null, <<"PN-456", "Hex Wrench 10mm">>}

\* Items whose strings hold the character of the key's separator.
BarItems ==
  {Item("dict", <<"a", "|", "|">>, <<"b">>, <<"x">>, 90, AutoRegister, <<"1">>),
   Item("dict", <<"a">>, <<"|", "|", "b">>, <<"y">>, 30, HumanReview, <<"6">>),
   Item("dict", <<"A">>, <<"B">>, <<"x">>, 30, AutoFlag, <<"3">>)}

BarLists == UNION {[1..n -> BarItems] : n \in 0..(MaxItems + 1)}

ProbeInputs ==
  {[op |-> "bars", items |-> l, done |-> FALSE,
    result |-> [raised |-> FALSE, items |-> <<>>]] : l \in BarLists}
  \cup
  {[op |-> "router", item |-> it, item_master_items |-> m,
    best_match |-> b, done |-> FALSE,
    result |-> [raised |-> FALSE, item |-> it],
    redone |-> FALSE,
    again |-> [raised |-> FALSE, item |-> it]] :
     it \in RouterItems, m \in ItemMasters, b \in BestMatches}
  \cup
  {[op |-> "call", script |-> s, done |-> FALSE,
    result |-> [outcome |-> "pending", attempts |-> 0, waits |-> <<>>]] :
     s \in ProbeScripts}
  \cup
  {[op |-> "classify", script |-> s, body |-> b, done |-> FALSE,
    result |-> <<>>] : s \in Scripts, b \in ProbeBodies}
  \cup
  {[op |-> "dedup", items |-> l, stage |-> 0,
    result |-> [raised |-> FALSE, items |-> <<>>],
    twice |-> [raised |-> FALSE, items |-> <<>>]] : l \in ProbeLists}

ProbeInit ==
  /\ probe \in ProbeInputs
  /\ scenario = "single"
  /\ issued = 0
  /\ workflows = <<>>
  /\ uploads = {}
  /\ results_files = <<>>
  /\ workflow_results = <<>>
  /\ pending_approvals = <<>>
  /\ knowledge_base = <<>>
  /\ autoinc = [kb |-> 0, pa |-> 0, wr |-> 0]
  /\ queue = <<>>
  /\ run = [w \in Ids |-> NoRun]
  /\ del = [id |-> 0, pc |-> "idle", existed |-> FALSE]

\* One call of _call_api_with_retry.
apply_call_api_with_retry ==
  /\ probe.op = "call"
  /\ ~probe.done
  /\ probe' = [probe EXCEPT !.done = TRUE,
                            !.result = _call_api_with_retry(probe.script)]
  /\ UNCHANGED <<scenario, issued, workflows, uploads, results_files,
                 workflow_results, pending_approvals, knowledge_base,
                 autoinc, queue, run, del>>

\* One call of extract_and_classify_items.
apply_extract_and_classify_items ==
  /\ probe.op = "classify"
  /\ ~probe.done
  /\ probe' = [probe EXCEPT
                 !.done = TRUE,
                 !.result = extract_and_classify_items(probe.script,
                                                       probe.body)]
  /\ UNCHANGED <<scenario, issued, workflows, uploads, results_files,
                 workflow_results, pending_approvals, knowledge_base,
                 autoinc, queue, run, del>>

\* One call of _deduplicate_items.
apply_deduplicate_items ==
  /\ probe.op = "dedup"
  /\ probe.stage = 0
  /\ probe' = [probe EXCEPT !.stage = 1,
                            !.result = _deduplicate_items(probe.items)]
  /\ UNCHANGED <<scenario, issued, workflows, uploads, results_files,
                 workflow_results, pending_approvals, knowledge_base,
                 autoinc, queue, run, del>>

\* _deduplicate_items called on the list it returned.
apply_deduplicate_items_again ==
  /\ probe.op = "dedup"
  /\ probe.stage = 1
  /\ ~probe.result.raised
  /\ probe' = [probe EXCEPT !.stage = 2,
                            !.twice = _deduplicate_items(probe.result.items)]
  /\ UNCHANGED <<scenario, issued, workflows, uploads, results_files,
                 workflow_results, pending_approvals, knowledge_base,
                 autoinc, queue, run, del>>

\* One call of _apply_classification_logic.
apply_classification_logic ==
  /\ probe.op = "router"
  /\ ~probe.done
  /\ probe' = [probe EXCEPT
                 !.done = TRUE,
                 !.result =
                    _apply_classification_logic(probe.item,
                                                probe.item_master_items,
                                                probe.best_match)]
  /\ UNCHANGED <<scenario, issued, workflows, uploads, results_files,
                 workflow_results, pending_approvals, knowledge_base,
                 autoinc, queue, run, del>>

\* One call of _deduplicate_items on items whose strings hold '|'.
apply_deduplicate_items_to_bars ==
  /\ probe.op = "bars"
  /\ ~probe.done
  /\ probe' = [probe EXCEPT !.done = TRUE,
                            !.result = _deduplicate_items(probe.items)]
  /\ UNCHANGED <<scenario, issued, workflows, uploads, results_files,
                 workflow_results, pending_approvals, knowledge_base,
                 autoinc, queue, run, del>>

\* _apply_classification_logic called on the item it returned.
apply_classification_logic_again ==
  /\ probe.op = "router"
  /\ probe.done
  /\ ~probe.redone
  /\ ~probe.result.raised
  /\ probe' = [probe EXCEPT
                 !.redone = TRUE,
                 !.again =
                    _apply_classification_logic(probe.result.item,
                                                probe.item_master_items,
                                                probe.best_match)]
  /\ UNCHANGED <<scenario, issued, workflows, uploads, results_files,
                 workflow_results, pending_approvals, knowledge_base,
                 autoinc, queue, run, del>>

ProbeNext ==
  \/ apply_classification_logic_again
  \/ apply_deduplicate_items_to_bars
  \/ apply_classification_logic
  \/ apply_call_api_with_retry
  \/ apply_extract_and_classify_items
  \/ apply_deduplicate_items
  \/ apply_deduplicate_items_again

ProbeSpec == ProbeInit /\ [][ProbeNext]_vars

\* The attempt at which a call ends: the first one that is not answered
\* 429, or the last one allowed.
LastAttempt(script) ==
  IF \E i \in 1..MAX_RETRIES : script[i] # "429"
  THEN CHOOSE i \in 1..MAX_RETRIES :
         /\ script[i] # "429"
         /\ \A j \in 1..(i - 1) : script[j] = "429"
  ELSE MAX_RETRIES

Doubling(n) == [i \in 1..n |-> 2 ^ (i - 1)]

\* C14: one call of the resilient caller makes at most 5 attempts and makes
\* a further attempt only after a 429; the waits before attempts 2, 3, 4, 5
\* are 1, 2, 4, 8 seconds; another HTTP failure or a transport failure is
\* raised at the attempt where it occurs, with no wait and no further
\* attempt; a 429 at the 5th attempt is raised without a wait.
C14_RetryOnlyOnRateLimit ==
  (probe.op = "call" /\ probe.done) =>
    LET s == probe.script
        r == probe.result
        n == r.attempts
    IN /\ n \in 1..5
       /\ n = LastAttempt(s)
       /\ \A i \in 1..(n - 1) : s[i] = "429"
       /\ r.waits = Doubling(n - 1)
       /\ s[n] \in {"http_error", "transport_error", "429"} =>
            r.outcome = "raised"
       /\ s[n] = "429" => (n = 5 /\ r.waits = <<1, 2, 4, 8>>)
       /\ s[n] = "ok" => r.outcome = "response"

\* A call that was answered 429 twice and then with another HTTP error,
\* while the service would have answered the attempt after it.
C14_Witness ==
  /\ probe.op = "call"
  /\ probe.done
  /\ probe.script[1] = "429"
  /\ probe.script[2] = "429"
  /\ probe.script[3] = "http_error"
  /\ probe.script[4] = "ok"
  /\ probe.result.outcome = "raised"
  /\ probe.result.attempts = 3
  /\ probe.result.waits = <<1, 2>>

\* C15: for every k in 0..4, a call whose first k attempts are answered 429
\* and whose attempt k+1 succeeds returns that response, after exactly k
\* waits of 1, 2, ..., 2^(k-1) seconds in that order.
C15_SuccessAfterRateLimits ==
  (probe.op = "call" /\ probe.done) =>
    \A k \in 0..4 :
      ((\A i \in 1..k : probe.script[i] = "429") /\ probe.script[k + 1] = "ok")
        => /\ probe.result.outcome = "response"
           /\ probe.result.attempts = k + 1
           /\ Len(probe.result.waits) = k
           /\ \A i \in 1..k : probe.result.waits[i] = 2 ^ (i - 1)

\* Four 429 answers, then success at the fifth attempt.
C15_Witness ==
  /\ probe.op = "call"
  /\ probe.done
  /\ \A i \in 1..4 : probe.script[i] = "429"
  /\ probe.script[5] = "ok"
  /\ probe.result.outcome = "response"
  /\ probe.result.waits = <<1, 2, 4, 8>>


Unavailable(script) == _call_api_with_retry(script).outcome # "response"

\* C16: what the caller of extract_and_classify_items receives when the
\* service answered with a payload that is not JSON differs from what it
\* receives when the service was unavailable (retries exhausted, HTTP or
\* transport failure): the two never yield the same returned value.
C16_ParseFailureDistinct ==
  (/\ probe.op = "classify"
   /\ probe.done
   /\ ~Unavailable(probe.script)
   /\ probe.body.kind = "malformed")
    => \A s \in Scripts, b \in ProbeBodies :
         Unavailable(s) => extract_and_classify_items(s, b) # probe.result

\* C17: when the classification call is answered with a body that is not
\* JSON, or is JSON but not a list, extract_and_classify_items yields zero
\* items instead of raising; the run goes on through the merge without
\* writing to either sink, and when it is completed its matches are empty
\* and its total_materials is 0.
C17_MalformedYieldsEmpty ==
  [][\A w \in Ids :
       /\ (run[w].pc = "classify" /\ run'[w].response_malformed) =>
            (run'[w].pc = "dedup" /\ run'[w].extracted_items = <<>>)
       /\ (run[w].response_malformed /\ run[w].pc = "dedup"
             /\ run'[w] # run[w]) => run'[w].pc = "save"
       /\ run'[w].response_malformed =>
            /\ Rows(knowledge_base', w) = <<>>
            /\ Rows(pending_approvals', w) = <<>>
            /\ (w \in DOMAIN workflows'
                  /\ workflows'[w].status = "completed") =>
                 /\ w \in DOMAIN results_files'
                 /\ results_files'[w].complete
                 /\ results_files'[w].matches = <<>>
                 /\ results_files'[w].summary.total_materials = 0]_vars

\* A run that was answered with a malformed body and is completed.
C17_Witness ==
  \E w \in DOMAIN workflows :
    /\ run[w].response_malformed
    /\ workflows[w].status = "completed"
    /\ get_workflow_results(w).outcome = "ok"
    /\ get_workflow_results(w).matches = <<>>


\* An item of the data model: a JSON object whose confidence_score, when it
\* has one, is a number and whose reasoning, when it has one, is a string.
OfItemType(item) ==
  /\ IsDict(item)
  /\ item.confidence_score # ScoreNull
  /\ item.reasoning # Null

AllOfItemType(items) == \A i \in 1..Len(items) : OfItemType(items[i])

\* C18: deduplication is idempotent: deduplicating the list a call returned
\* returns that list again, with the same records, field values and order.
C18_DedupIdempotent ==
  (probe.op = "dedup" /\ probe.stage = 2) =>
    /\ ~probe.twice.raised
    /\ probe.twice.items = probe.result.items

\* Three items of two keys were merged into two records, and merged again.
C18_Witness ==
  /\ probe.op = "dedup"
  /\ probe.stage = 2
  /\ Len(probe.items) = 3
  /\ Len(probe.result.items) = 2
  /\ probe.result.items[1] # probe.items[1]
  /\ probe.twice.items = probe.result.items

\* A field of the key as the property reads it: lowercased, surrounding
\* whitespace trimmed, None or a missing field as the empty string.
Normalized(v) == IF v = Null \/ v = Absent THEN <<>> ELSE Strip(Lower(v))

NormalizedPair(item) ==
  <<Normalized(item.material_name), Normalized(item.part_number)>>

Members(items, pair) == {i \in 1..Len(items) : NormalizedPair(items[i]) = pair}

\* C19: input items (of the item type) whose (material_name, part_number)
\* are equal after lowercasing, trimming and reading None or a missing
\* field as the empty string are merged into one output record: the call
\* returns, and its output holds exactly one record for each normalized
\* pair of the input.
C19_SameKeyMerged ==
  (probe.op = "dedup" /\ probe.stage >= 1 /\ AllOfItemType(probe.items)) =>
    /\ ~probe.result.raised
    /\ \A i \in 1..Len(probe.items) :
         Cardinality(Members(probe.result.items,
                             NormalizedPair(probe.items[i]))) = 1
    /\ \A j \in 1..Len(probe.result.items) :
         Members(probe.items, NormalizedPair(probe.result.items[j])) # {}

\* "A"/"p", " a"/"P" and "a "/"p " became one record, and three items with
\* both fields empty would too.
C19_Witness ==
  /\ probe.op = "dedup"
  /\ probe.stage >= 1
  /\ Len(probe.items) = 3
  /\ AllOfItemType(probe.items)
  /\ probe.items[1].material_name = <<"A">>
  /\ probe.items[2].material_name = <<" ", "a">>
  /\ probe.items[3].material_name = <<"a", " ">>
  /\ Len(probe.result.items) = 1

ScoreOrZero(item) ==
  IF item.confidence_score = ScoreAbsent THEN 0 ELSE item.confidence_score

MaxScore(items, group) ==
  CHOOSE m \in {ScoreOrZero(items[i]) : i \in group} :
    \A i \in group : ScoreOrZero(items[i]) <= m

\* C20: for every group of input items (of the item type) sharing a key,
\* the merged record's confidence_score is the maximum of the members'
\* scores, a member without a score counting as 0, whatever the order of
\* the input; a record merged from two or more members holds that maximum
\* as a number.
C20_MergedScoreIsMax ==
  (probe.op = "dedup" /\ probe.stage >= 1 /\ AllOfItemType(probe.items)) =>
    /\ ~probe.result.raised
    /\ \A j \in 1..Len(probe.result.items) :
         LET group == Members(probe.items,
                              NormalizedPair(probe.result.items[j]))
         IN /\ group # {}
            /\ ScoreOrZero(probe.result.items[j]) =
                 MaxScore(probe.items, group)
            /\ Cardinality(group) >= 2 =>
                 probe.result.items[j].confidence_score =
                   MaxScore(probe.items, group)

\* Three items of one key whose highest score came first.
C20_Witness ==
  /\ probe.op = "dedup"
  /\ probe.stage >= 1
  /\ AllOfItemType(probe.items)
  /\ Len(probe.items) = 3
  /\ Len(probe.result.items) = 1
  /\ probe.items[1].confidence_score = 90
  /\ probe.items[2].confidence_score = ScoreAbsent
  /\ probe.items[3].confidence_score = 30
  /\ probe.result.items[1].confidence_score = 90


\* The order human-review > auto-with-flag > auto-register of the property;
\* 0 for anything else.
Scrutiny(path) ==
  IF path = HumanReview THEN 3
  ELSE IF path = AutoFlag THEN 2
  ELSE IF path = AutoRegister THEN 1
  ELSE 0

MaxScrutiny(items, group) ==
  CHOOSE m \in {Scrutiny(Get(items[i].action_path)) : i \in group} :
    \A i \in group : Scrutiny(Get(items[i].action_path)) <= m

First(group) == CHOOSE i \in group : \A j \in group : i <= j

\* C21: for every group of input items (of the item type) sharing a key,
\* the merged record's action_path is the most conservative one among the
\* members under human-review > auto-with-flag > auto-register, in whatever
\* order the members appear; a group none of whose members has one of the
\* three paths keeps what its first member has.
C21_MostConservativePath ==
  (probe.op = "dedup" /\ probe.stage >= 1 /\ AllOfItemType(probe.items)) =>
    /\ ~probe.result.raised
    /\ \A j \in 1..Len(probe.result.items) :
         LET out == probe.result.items[j]
             group == Members(probe.items, NormalizedPair(out))
             top == MaxScrutiny(probe.items, group)
         IN /\ group # {}
            /\ Scrutiny(Get(out.action_path)) = top
            /\ top = 0 =>
                 Get(out.action_path) =
                   Get(probe.items[First(group)].action_path)

\* An auto-register item came first, a human-review item of the same key
\* second, and the record is human-review.
C21_Witness ==
  /\ probe.op = "dedup"
  /\ probe.stage >= 1
  /\ Len(probe.items) = 2
  /\ AllOfItemType(probe.items)
  /\ probe.items[1].action_path = AutoRegister
  /\ probe.items[2].action_path = HumanReview
  /\ Len(probe.result.items) = 1
  /\ probe.result.items[1].action_path = HumanReview

HasValue(v) == v # Null /\ v # Absent /\ v # <<>>

\* C22: the merged record's qa_classification_label is the first-seen value
\* of its group when the first-seen item has one, and otherwise the value
\* of the first later member that has one: a label that is absent or empty
\* in the record so far is filled by the new item's.
C22_LabelFilledWhenAbsent ==
  (probe.op = "dedup" /\ probe.stage >= 1 /\ AllOfItemType(probe.items)) =>
    /\ ~probe.result.raised
    /\ \A j \in 1..Len(probe.result.items) :
         LET out == probe.result.items[j]
             group == Members(probe.items, NormalizedPair(out))
             labelled ==
               {i \in group : HasValue(probe.items[i].qa_classification_label)}
         IN labelled # {} =>
              out.qa_classification_label =
                probe.items[First(labelled)].qa_classification_label


Orderings(n) ==
  {f \in [1..n -> 1..n] : \A i, j \in 1..n : i # j => f[i] # f[j]}

Reordered(items, f) == [i \in 1..Len(items) |-> items[f[i]]]

KeysOf(items) == {NormalizedPair(items[i]) : i \in 1..Len(items)}

\* An action path of the data model, or none.
HasPathOfModel(item) ==
  Get(item.action_path) \in {AutoRegister, AutoFlag, HumanReview, Null}

SameRecords(left, right) ==
  /\ KeysOf(left) = KeysOf(right)
  /\ \A j \in 1..Len(left), k \in 1..Len(right) :
       NormalizedPair(left[j]) = NormalizedPair(right[k]) =>
         /\ left[j].confidence_score = right[k].confidence_score
         /\ Get(left[j].action_path) = Get(right[k].action_path)

\* C23: for any two orderings of the same multiset of items (of the item
\* type, with an action path of the data model or none) the outputs have the
\* same set of keys and, per key, the same merged confidence_score and the
\* same merged action_path; within one ordering the output lists the keys
\* in the order of their first occurrence in the input.
C23_OrderIndependent ==
  ( /\ probe.op = "dedup"
    /\ probe.stage >= 1
    /\ AllOfItemType(probe.items)
    /\ \A i \in 1..Len(probe.items) : HasPathOfModel(probe.items[i]) ) =>
    /\ ~probe.result.raised
    /\ \A f \in Orderings(Len(probe.items)) :
         LET other == _deduplicate_items(Reordered(probe.items, f))
         IN /\ ~other.raised
            /\ SameRecords(probe.result.items, other.items)
    /\ \A j, k \in 1..Len(probe.result.items) :
         j < k =>
           First(Members(probe.items, NormalizedPair(probe.result.items[j])))
             < First(Members(probe.items, NormalizedPair(probe.result.items[k])))

\* Three items of two keys, the key seen first with two members of different
\* score and action path, the other key between them.
C23_Witness ==
  /\ probe.op = "dedup"
  /\ probe.stage >= 1
  /\ Len(probe.items) = 3
  /\ AllOfItemType(probe.items)
  /\ \A i \in 1..3 : HasPathOfModel(probe.items[i])
  /\ NormalizedPair(probe.items[1]) = NormalizedPair(probe.items[3])
  /\ NormalizedPair(probe.items[1]) # NormalizedPair(probe.items[2])
  /\ probe.items[1].confidence_score # probe.items[3].confidence_score
  /\ Get(probe.items[1].action_path) # Get(probe.items[3].action_path)
  /\ Len(probe.result.items) = 2
  /\ NormalizedPair(probe.result.items[1]) = NormalizedPair(probe.items[1])


\* ---- the router's inputs, as the rule list names them
PartNumberPresent(item) == HasValue(item.part_number)

PartNumberInMaster(item, master) ==
  /\ PartNumberPresent(item)
  /\ \E i \in 1..Len(master) : master[i].part_number = item.part_number

NamePresent(item) == HasValue(item.material_name)

NameInMaster(item, master) ==
  /\ NamePresent(item)
  /\ \E i \in 1..Len(master) : master[i].material_name = item.material_name

QuantityPresent(item) == HasValue(item.qty)

VendorPresent(item) == HasValue(item.vendor_name)

ObsoleteFlag(item) == item.part_number = <<"OBSOLETE-PN">>

AmbiguousFlag(item) ==
  /\ NamePresent(item)
  /\ \E i \in 1..Len(item.material_name) :
       item.material_name[i] \in {"Ambiguous", "Vague"}

\* The condition of the n-th rule of the list.
RuleHolds(n, item, master) ==
  CASE n = 1 -> /\ PartNumberInMaster(item, master)
                /\ QuantityPresent(item)
                /\ NamePresent(item)
    [] n = 2 -> /\ PartNumberInMaster(item, master)
                /\ QuantityPresent(item)
                /\ item.spec_match
    [] n = 3 -> PartNumberInMaster(item, master) /\ ~QuantityPresent(item)
    [] n = 4 -> /\ ~PartNumberPresent(item)
                /\ ~NamePresent(item)
                /\ VendorPresent(item)
    [] n = 5 -> item.kit_available /\ PartNumberPresent(item)
    [] n = 6 -> /\ ~PartNumberPresent(item)
                /\ NamePresent(item)
                /\ QuantityPresent(item)
    [] n = 7 -> ~PartNumberPresent(item) /\ NameInMaster(item, master)
    [] n = 8 -> /\ PartNumberPresent(item)
                /\ NamePresent(item)
                /\ ~PartNumberInMaster(item, master)
    [] n = 9 -> ObsoleteFlag(item) /\ NamePresent(item)
    [] n = 10 -> AmbiguousFlag(item)
    [] n = 11 -> item.multiple_references
    [] n = 12 -> /\ VendorPresent(item)
                 /\ item.kit_available
                 /\ ~PartNumberPresent(item)
    [] OTHER -> TRUE

\* Label, confidence level, action path and score (in hundredths) of the
\* n-th rule of the list.
RuleOutcome(n) ==
  CASE n = 1 -> <<<<"1">>, <<"high">>, AutoRegister, 95>>
    [] n = 2 -> <<<<"2">>, <<"high">>, AutoRegister, 90>>
    [] n = 3 -> <<<<"3">>, <<"medium">>, AutoFlag, 70>>
    [] n = 4 -> <<<<"9">>, <<"medium">>, AutoFlag, 60>>
    [] n = 5 -> <<<<"1", "1">>, <<"medium">>, AutoFlag, 55>>
    [] n = 6 -> <<<<"1", "2">>, <<"medium">>, AutoFlag, 65>>
    [] n = 7 -> <<<<"4">>, <<"low">>, HumanReview, 40>>
    [] n = 8 -> <<<<"6">>, <<"low">>, HumanReview, 30>>
    [] n = 9 -> <<<<"7">>, <<"low">>, HumanReview, 20>>
    [] n = 10 -> <<<<"8">>, <<"low">>, HumanReview, 35>>
    [] n = 11 -> <<<<"1", "0">>, <<"low">>, HumanReview, 10>>
    [] n = 12 -> <<<<"1", "3">>, <<"low">>, HumanReview, 25>>
    [] OTHER -> <<<<"5">>, <<"low">>, HumanReview, 0>>

FirstRule(item, master) ==
  CHOOSE n \in 1..13 :
    /\ RuleHolds(n, item, master)
    /\ \A m \in 1..(n - 1) : ~RuleHolds(m, item, master)

Outcome(item) ==
  <<item.qa_classification_label, item.qa_confidence_level,
    item.action_path, item.confidence_score>>

Routed == probe.op = "router" /\ probe.done

C25_PerfectMatch ==
  ( /\ Routed
    /\ PartNumberInMaster(probe.item, probe.item_master_items)
    /\ NamePresent(probe.item)
    /\ QuantityPresent(probe.item) ) =>
    /\ ~probe.result.raised
    /\ Outcome(probe.result.item) = <<<<"1">>, <<"high">>, AutoRegister, 95>>

\* The obsolete part number is in the item master; the item has an ambiguous
\* name, a quantity, the kit flag and the multiple-references flag, and
\* label 1.
C25_Witness ==
  /\ Routed
  /\ ObsoleteFlag(probe.item)
  /\ PartNumberInMaster(probe.item, probe.item_master_items)
  /\ AmbiguousFlag(probe.item)
  /\ QuantityPresent(probe.item)
  /\ probe.item.kit_available
  /\ probe.item.multiple_references
  /\ probe.result.item.qa_classification_label = <<"1">>

\* C26: an item whose part number is the obsolete one and not in the item
\* master, with a name, a quantity and a vendor, gets label 7, level low,
\* human-review, score 0.20.
C26_ObsoleteIsLabel7 ==
  ( /\ Routed
    /\ ObsoleteFlag(probe.item)
    /\ ~PartNumberInMaster(probe.item, probe.item_master_items)
    /\ NamePresent(probe.item)
    /\ QuantityPresent(probe.item)
    /\ VendorPresent(probe.item) ) =>
    /\ ~probe.result.raised
    /\ Outcome(probe.result.item) = <<<<"7">>, <<"low">>, HumanReview, 20>>

\* Empty, for a field of an item: the empty string, or no such key.
IsEmpty(v) == v = <<>> \/ v = Absent

C28_KbMatchIsLabel4 ==
  ( /\ Routed
    /\ PartNumberPresent(probe.item)
    /\ NamePresent(probe.item)
    /\ QuantityPresent(probe.item)
    /\ ~PartNumberInMaster(probe.item, probe.item_master_items)
    /\ probe.best_match # Null ) =>
    /\ ~probe.result.raised
    /\ Outcome(probe.result.item) = <<<<"4">>, <<"medium">>, AutoFlag, 70>>

\* C29: the enrichment attaches to the item a has-match boolean
\* (supplier_match) that is true exactly when the matcher returned a match,
\* and the matched record; the item's own material_name, part_number, qty
\* and vendor_name are as they were.
C29_EnrichmentFlagIffMatch ==
  Routed =>
    /\ probe.result.item.supplier_match <=> probe.best_match # Null
    /\ probe.best_match # Null =>
         probe.result.item.kb_match = probe.best_match
    /\ probe.result.item.material_name = probe.item.material_name
    /\ probe.result.item.part_number = probe.item.part_number
    /\ probe.result.item.qty = probe.item.qty
    /\ probe.result.item.vendor_name = probe.item.vendor_name


\* What the sinks and the result store hold of workflow w, item by item.
SunkItems(w) ==
  LET kb == Rows(knowledge_base, w)
      pa == Rows(pending_approvals, w)
      wr == Rows(workflow_results, w)
  IN {kb[i].metadata : i \in 1..Len(kb)}
       \cup {pa[i].item_data : i \in 1..Len(pa)}
       \cup UNION {{wr[i].results_data[j] : j \in 1..Len(wr[i].results_data)} :
                     i \in 1..Len(wr)}

Classified(item) ==
  /\ Get(item.action_path) \in {AutoRegister, AutoFlag, HumanReview}
  /\ HasValue(item.qa_classification_label)

\* C30: an item the extraction returned without an action_path is
\* classified by the router before the routing split: every item that is
\* split, sunk and persisted carries an action_path among auto-register,
\* auto-with-flag and human-review, and a classification label.
C30_RoutedBeforeSplit ==
  \A w \in Ids : \A item \in SunkItems(w) : Classified(item)


PendingRecord(id) ==
  CHOOSE r \in {pending_approvals[i] : i \in DOMAIN pending_approvals} :
    r.id = id

PendingIds == {pending_approvals[i].id : i \in DOMAIN pending_approvals}

\* No step changes a record that is approved or rejected.
DecisionsStand ==
  \A id \in PendingIds :
    (PendingRecord(id).status # "pending" /\ id \in PendingIds') =>
      /\ PendingRecord(id)'.status = PendingRecord(id).status
      /\ PendingRecord(id)'.reviewed_by = PendingRecord(id).reviewed_by
      /\ PendingRecord(id)'.review_notes = PendingRecord(id).review_notes

\* C31: a pending-approval record's status only moves from pending to
\* approved or from pending to rejected; once it is approved or rejected,
\* no approve or reject call that names its id changes its status, reviewer
\* or notes.
C31_DecisionIsTerminal == [][DecisionsStand]_vars


\* C32: a submission with an input error (a document of an unsupported file
\* type) is rejected before any workflow is created: no workflow row, no
\* stored upload and no scheduled run exists for such a document.
C32_InputErrorCreatesNothing ==
  /\ \A w \in DOMAIN workflows :
       workflows[w].wi_document_path # "unsupported"
  /\ \A w \in Ids :
       run[w].wi_path = "unsupported" => (w \notin uploads /\ InQueue(w) = 0)

\* C33: a failure of text extraction is a stage failure: a run whose
\* document could not be read or parsed never reaches the translation stage
\* with empty text.
C33_ExtractionFailureIsStageFailure ==
  \A w \in Ids :
    run[w].pc \in {"status30", "translate"} => run[w].wi_content # "empty"


\* C34: two input items whose normalized (material_name, part_number) pairs
\* differ are never merged into one record, also when their strings hold
\* '|': the output has one record for each normalized pair of the input.
C34_DistinctPairsNotMerged ==
  (probe.op = "bars" /\ probe.done) =>
    /\ ~probe.result.raised
    /\ Len(probe.result.items) = Cardinality(KeysOf(probe.items))

\* On its own the item goes to the pending-approval sink: its action_path is
\* human-review, auto-with-flag, missing or not one of the three.
RoutedToPending(item) == Get(item.action_path) # AutoRegister

\* C35: merging never lowers scrutiny across the routing split: when a
\* member of a group of same-key items (of the item type) would on its own
\* go to the pending-approval sink, the merged record goes there too.
C35_MergeKeepsScrutiny ==
  (probe.op = "dedup" /\ probe.stage >= 1 /\ AllOfItemType(probe.items)) =>
    /\ ~probe.result.raised
    /\ \A j \in 1..Len(probe.result.items) :
         LET out == probe.result.items[j]
             group == Members(probe.items, NormalizedPair(out))
         IN (\E i \in group : RoutedToPending(probe.items[i])) =>
              RoutedToPending(out)


\* C36: once delete(id) has returned success, no state holds a
\* workflow_results row, a results file, a pending-approval record or an
\* upload directory for id, also when the delete was issued while the run
\* of id was pending or in progress.
C36_DeletedStaysDeleted ==
  (del.pc = "returned" /\ del.existed) =>
    /\ Rows(workflow_results, del.id) = <<>>
    /\ del.id \notin DOMAIN results_files
    /\ Rows(pending_approvals, del.id) = <<>>
    /\ del.id \notin uploads

\* C37: a workflow that ends with status error has left no trace in the
\* shared sinks: no knowledge-base entry and no pending-approval record
\* carries its workflow id.
C37_ErrorLeavesNoSinkTrace ==
  \A w \in DOMAIN workflows :
    workflows[w].status = "error" =>
      /\ Rows(knowledge_base, w) = <<>>
      /\ Rows(pending_approvals, w) = <<>>

HasStatus(id, status) ==
  \E i \in DOMAIN pending_approvals :
    pending_approvals[i].id = id /\ pending_approvals[i].status = status

EntriesFrom(id) ==
  {i \in DOMAIN knowledge_base : knowledge_base[i].pending_id = id}

\* C38: after any sequence of approve_items and reject_items calls, every
\* pending-approval record that is approved has exactly one knowledge-base
\* entry created from it, and every record that is pending or rejected has
\* none.
C38_ApprovedIffOneEntry ==
  \A id \in PendingIds :
    Cardinality(EntriesFrom(id)) = IF HasStatus(id, "approved") THEN 1 ELSE 0


\* C39: classification is stable under re-application: the router applied
\* to an item it has classified returns, with the same label, confidence
\* level, action path and score as its first application.
C39_ReclassificationIsStable ==
  (probe.op = "router" /\ probe.redone) =>
    /\ ~probe.again.raised
    /\ Outcome(probe.again.item) = Outcome(probe.result.item)

====
